---- MODULE Spec2Model ----
(***************************************************************************)
(* Model of MotorsportManager ("Unit Test/Unit Test.cpp"): a fixed array   *)
(* of MAX_SESSIONS Session values with a count, addSession, and the const  *)
(* queries getSessionCount, calculateAverageLap, calculateOverallAverage   *)
(* and getBaseLapTime, driven by a caller that owns one Session object.    *)
(*                                                                         *)
(* A double is modelled as an exact fraction [num, den] in lowest terms    *)
(* with den > 0; den = 0 stands for the IEEE results of a division by      *)
(* zero (0/0 = NaN, 1/0 = +Inf, -1/0 = -Inf).  Lap times are whole         *)
(* seconds, as in every test of the file, so the sums are exact.           *)
(***************************************************************************)
EXTENDS Integers, Sequences, FiniteSets

\* ---------------------------------------------------------------- bounds
\* How many times the caller calls addSession (more than MAX_SESSIONS, so
\* that rejected calls happen).
MaxAddCalls == 7

\* How many times the caller modifies its own Session object.
MaxEdits == 1

\* The largest integer stored in a VehicleType object (the enumerators are
\* 1..3; 0, -1 and the values above 3 are the unrecognized ones).
MaxVehicle == 4

\* ----------------------------------------------------- program constants
GT3 == 1

Formula == 2

Rally == 3

MAX_SESSIONS == 5

VehicleType == (0 - 1)..MaxVehicle

Slots == 0..(MAX_SESSIONS - 1)

\* The lap times the caller writes into its Session object.
LapValues == {0 - 3, 0, 2}

\* struct Session
Session(d, t, v, l0, l1, l2) ==
    [driverName |-> d, trackName |-> t, vehicle |-> v,
     lapTimes |-> [i \in 0..2 |-> IF i = 0 THEN l0 ELSE IF i = 1 THEN l1 ELSE l2]]

\* The Session objects the callers of the file construct (the tests'
\* aggregate initialisers), and one with empty names and negative laps.
CallerSessions ==
    { Session("A", "B", Formula, 70, 71, 69),
      Session("Z", "Z", GT3, 0, 0, 0),
      Session("X", "Y", GT3, 1, 1, 1),
      Session("", "", Rally, 0 - 3, 0, 1) }

\* What a default-initialised element of sessions[] may hold: the strings
\* are empty, vehicle and lapTimes are indeterminate.
IndeterminateSessions ==
    { Session("", "", 0, 0, 0, 0), Session("", "", MaxVehicle, 9, 0 - 7, 5) }

\* ---------------------------------------------------------------- doubles
Abs(x) == IF x < 0 THEN 0 - x ELSE x

Sign(x) == IF x < 0 THEN 0 - 1 ELSE IF x = 0 THEN 0 ELSE 1

RECURSIVE Gcd(_, _)
Gcd(a, b) == IF b = 0 THEN a ELSE Gcd(b, a % b)

\* The double with the value of the integer n.
Dbl(n) == [num |-> n, den |-> 1]

\* total / n in double arithmetic.
Div(total, n) ==
    IF n = 0 THEN [num |-> Sign(total), den |-> 0]
    ELSE LET g == Gcd(Abs(total), Abs(n))
             sg == Sign(n)
         IN  [num |-> (sg * total) \div g, den |-> (sg * n) \div g]

\* sessions, sessionCount: the members of MotorsportManager.
\* session: the caller's Session object; edits: how often it was modified.
\* addCalls: how many addSession calls were made.
\* op, arg, ret: the last call, its argument and its return value;
\* again: the last call repeated the call before it with the same argument.
VARIABLES sessions, sessionCount, session, edits, addCalls, op, arg, ret, again

vars == <<sessions, sessionCount, session, edits, addCalls, op, arg, ret, again>>

store == <<sessions, sessionCount>>

\* ------------------------------------------------------ MotorsportManager
\* MotorsportManager(): sessionCount = 0; the array elements are
\* default-initialised.  The caller holds one Session object.
Init ==
    /\ sessions \in { [i \in Slots |-> g] : g \in IndeterminateSessions }
    /\ sessionCount = 0
    /\ session \in CallerSessions
    /\ edits = 0
    /\ addCalls = 0
    /\ op = "init"
    /\ arg = "none"
    /\ ret = "none"
    /\ again = FALSE

\* addSession with the capacity test written > instead of >=.
addSession_OffByOne(s) ==
    IF sessionCount > MAX_SESSIONS
    THEN /\ ret' = FALSE
         /\ UNCHANGED store
    ELSE /\ sessions' = [sessions EXCEPT ![sessionCount] = s]
         /\ sessionCount' = sessionCount + 1
         /\ ret' = TRUE

\* addSession incrementing the count before it stores.
addSession_IncrementFirst(s) ==
    IF sessionCount >= MAX_SESSIONS
    THEN /\ ret' = FALSE
         /\ UNCHANGED store
    ELSE /\ sessions' = [sessions EXCEPT ![sessionCount + 1] = s]
         /\ sessionCount' = sessionCount + 1
         /\ ret' = TRUE

\* addSession without the capacity test.
addSession_NoLimit(s) ==
    /\ sessions' = [sessions EXCEPT ![sessionCount] = s]
    /\ sessionCount' = sessionCount + 1
    /\ ret' = TRUE

\* addSession counting a rejected call as stored.
addSession_CountsRejected(s) ==
    IF sessionCount >= MAX_SESSIONS
    THEN /\ ret' = TRUE
         /\ UNCHANGED store
    ELSE /\ sessions' = [sessions EXCEPT ![sessionCount] = s]
         /\ sessionCount' = sessionCount + 1
         /\ ret' = TRUE

\* addSession overwriting the last element when the array is full.
addSession_OverwriteLast(s) ==
    IF sessionCount >= MAX_SESSIONS
    THEN /\ sessions' = [sessions EXCEPT ![MAX_SESSIONS - 1] = s]
         /\ ret' = FALSE
         /\ UNCHANGED sessionCount
    ELSE /\ sessions' = [sessions EXCEPT ![sessionCount] = s]
         /\ sessionCount' = sessionCount + 1
         /\ ret' = TRUE

\* bool addSession(const Session& s)
addSession(s) ==
    IF sessionCount >= MAX_SESSIONS
    THEN /\ ret' = FALSE
         /\ UNCHANGED store
    ELSE /\ sessions' = [sessions EXCEPT ![sessionCount] = s]
         /\ sessionCount' = sessionCount + 1
         /\ ret' = TRUE

\* getSessionCount returning sessionCount++.
getSessionCount_PostIncrement ==
    /\ ret' = sessionCount
    /\ sessionCount' = sessionCount + 1
    /\ UNCHANGED sessions

\* int getSessionCount() const
getSessionCount ==
    /\ ret' = sessionCount
    /\ UNCHANGED store

\* The loop of calculateAverageLap: total after adding lapTimes[i..2].
RECURSIVE LapLoop(_, _, _)
LapLoop(s, i, total) ==
    IF i < 3 THEN LapLoop(s, i + 1, total + s.lapTimes[i]) ELSE total

\* calculateAverageLap with its loop starting at lap 1.
calculateAverageLap_SkipsFirst(s) == Div(LapLoop(s, 1, 0), 3)

\* double calculateAverageLap(const Session& s) const
calculateAverageLap(s) == Div(LapLoop(s, 0, 0), 3)

\* The nested loops of calculateOverallAverage: <<total, lapCount>> after
\* the iterations from (i, j) on.
RECURSIVE OverallLoop(_, _, _, _)
OverallLoop(i, j, total, lapCount) ==
    IF i < sessionCount
    THEN IF j < 3
         THEN OverallLoop(i, j + 1, total + sessions[i].lapTimes[j], lapCount + 1)
         ELSE OverallLoop(i + 1, 0, total, lapCount)
    ELSE <<total, lapCount>>

\* calculateOverallAverage dividing by the number of sessions.
calculateOverallAverage_PerSession ==
    IF sessionCount = 0
    THEN Dbl(0)
    ELSE LET r == OverallLoop(0, 0, 0, 0) IN Div(r[1], sessionCount)

\* calculateOverallAverage without the test for an empty store.
calculateOverallAverage_NoGuard ==
    LET r == OverallLoop(0, 0, 0, 0) IN Div(r[1], r[2])

\* double calculateOverallAverage() const
calculateOverallAverage ==
    IF sessionCount = 0
    THEN Dbl(0)
    ELSE LET r == OverallLoop(0, 0, 0, 0) IN Div(r[1], r[2])

\* getBaseLapTime with a Rally branch and 0.0 for everything else.
getBaseLapTime_NoFallback(vehicle) ==
    IF vehicle = GT3 THEN Dbl(95)
    ELSE IF vehicle = Formula THEN Dbl(70)
    ELSE IF vehicle = Rally THEN Dbl(120)
    ELSE Dbl(0)

\* double getBaseLapTime(VehicleType vehicle) const
getBaseLapTime(vehicle) ==
    IF vehicle = GT3 THEN Dbl(95)
    ELSE IF vehicle = Formula THEN Dbl(70)
    ELSE Dbl(120)

\* ------------------------------------------------------------- the caller
\* m.addSession(s)
CallAddSession ==
    /\ addCalls < MaxAddCalls
    /\ addSession(session)
    /\ addCalls' = addCalls + 1
    /\ op' = "addSession"
    /\ arg' = session
    /\ again' = (op = "addSession" /\ arg = session)
    /\ UNCHANGED <<session, edits>>

\* m.getSessionCount()
CallGetSessionCount ==
    /\ getSessionCount
    /\ op' = "getSessionCount"
    /\ arg' = "none"
    /\ again' = (op = "getSessionCount")
    /\ UNCHANGED <<session, edits, addCalls>>

\* m.calculateAverageLap(s)
CallCalculateAverageLap ==
    /\ ret' = calculateAverageLap(session)
    /\ op' = "calculateAverageLap"
    /\ arg' = session
    /\ again' = (op = "calculateAverageLap" /\ arg = session)
    /\ UNCHANGED <<store, session, edits, addCalls>>

\* m.calculateOverallAverage()
CallCalculateOverallAverage ==
    /\ ret' = calculateOverallAverage
    /\ op' = "calculateOverallAverage"
    /\ arg' = "none"
    /\ again' = (op = "calculateOverallAverage")
    /\ UNCHANGED <<store, session, edits, addCalls>>

\* m.getBaseLapTime(vehicle)
CallGetBaseLapTime ==
    \E vehicle \in VehicleType :
        /\ ret' = getBaseLapTime(vehicle)
        /\ op' = "getBaseLapTime"
        /\ arg' = vehicle
        /\ again' = (op = "getBaseLapTime" /\ arg = vehicle)
        /\ UNCHANGED <<store, session, edits, addCalls>>

\* session.lapTimes[i] = ...: the caller changes its own Session object.
ModifySession ==
    \E i \in 0..2, v \in LapValues :
        /\ edits < MaxEdits
        /\ session.lapTimes[i] # v
        /\ session' = [session EXCEPT !.lapTimes[i] = v]
        /\ edits' = edits + 1
        /\ op' = "modify"
        /\ arg' = "none"
        /\ ret' = "none"
        /\ again' = FALSE
        /\ UNCHANGED <<store, addCalls>>

Next ==
    \/ CallAddSession
    \/ CallGetSessionCount
    \/ CallCalculateAverageLap
    \/ CallCalculateOverallAverage
    \/ CallGetBaseLapTime
    \/ ModifySession

Spec == Init /\ [][Next]_vars

\* ------------------------------------------------------------- properties
Min(a, b) == IF a < b THEN a ELSE b

Queries ==
    {"getSessionCount", "calculateAverageLap", "calculateOverallAverage",
     "getBaseLapTime"}

\* A step that is a call of addSession.
IsAddStep == addCalls' = addCalls + 1

\* The sum of the lap times of the stored sessions 0..k-1.
RECURSIVE StoredLapSum(_)
StoredLapSum(k) ==
    IF k = 0 THEN 0
    ELSE StoredLapSum(k - 1) + sessions[k - 1].lapTimes[0]
           + sessions[k - 1].lapTimes[1] + sessions[k - 1].lapTimes[2]

\* C1: an addSession call on a store whose count equals the capacity
\* returns false and leaves the count at 5 and every stored session in place.
C1_FullStoreRejects ==
    [][IsAddStep /\ sessionCount = MAX_SESSIONS
         => /\ ret' = FALSE
            /\ sessionCount' = MAX_SESSIONS
            /\ \A i \in Slots : sessions'[i] = sessions[i]]_vars

C1_Witness ==
    op = "addSession" /\ ret = FALSE /\ sessionCount = MAX_SESSIONS

\* C2: an addSession(s) call on a store with count k < 5 returns true, makes
\* the count k+1, stores s at position k and leaves positions 0..k-1 as
\* they were.
C2_AppendsAtEnd ==
    [][IsAddStep /\ sessionCount < MAX_SESSIONS
         => /\ ret' = TRUE
            /\ sessionCount' = sessionCount + 1
            /\ sessions'[sessionCount] = session
            /\ \A i \in 0..(sessionCount - 1) : sessions'[i] = sessions[i]]_vars

C2_Witness ==
    /\ op = "addSession" /\ ret = TRUE /\ sessionCount = 3
    /\ sessions[2] = arg /\ sessions[0] # arg

\* C3: a fresh store has count 0, and in every reachable state the count,
\* and what getSessionCount returns, is in 0..5.
C3_CountInRange ==
    /\ sessionCount \in 0..MAX_SESSIONS
    /\ (op = "init" => sessionCount = 0)
    /\ (op = "getSessionCount" => ret = sessionCount /\ ret \in 0..MAX_SESSIONS)

C3_Witness ==
    op = "getSessionCount" /\ ret = MAX_SESSIONS /\ addCalls > MAX_SESSIONS

\* C4: of the addSession calls on a fresh store exactly the first 5 return
\* true and every later one false; after n calls the count is min(n, 5);
\* the count never decreases.
C4_FirstFiveAccepted ==
    /\ [](/\ sessionCount = Min(addCalls, MAX_SESSIONS)
          /\ (op = "addSession" => ret = (addCalls <= MAX_SESSIONS)))
    /\ [][sessionCount' >= sessionCount]_vars

C4_Witness ==
    op = "addSession" /\ addCalls = MAX_SESSIONS + 2 /\ ret = FALSE

\* C5: with count >= 1, calculateOverallAverage returns the sum of the
\* 3 x count lap times of the stored sessions divided by 3 x count.
C5_OverallAverageIsMean ==
    op = "calculateOverallAverage" /\ sessionCount >= 1
      => /\ ret.den > 0
         /\ ret.num * (3 * sessionCount) = StoredLapSum(sessionCount) * ret.den

C5_Witness ==
    /\ op = "calculateOverallAverage"
    /\ sessionCount = MAX_SESSIONS /\ addCalls > MAX_SESSIONS
    /\ \A i \in Slots : sessions[i] # session
    /\ ret.num # 0 /\ ret.den # 1

\* C6: calculateOverallAverage on a store with count 0 returns exactly 0.0
\* (no NaN from a division by zero).
C6_EmptyStoreAverageIsZero ==
    op = "calculateOverallAverage" /\ sessionCount = 0
      => ret.num = 0 /\ ret.den = 1

C6_Witness ==
    op = "calculateOverallAverage" /\ sessionCount = 0

\* C7: calculateAverageLap(s) returns (a + b + c) / 3 for the lap times
\* a, b, c of s, zero and negative ones included (0.0 when all are 0),
\* whatever the store holds.
C7_AverageLapIsMean ==
    op = "calculateAverageLap"
      => LET sum == arg.lapTimes[0] + arg.lapTimes[1] + arg.lapTimes[2]
         IN  /\ ret.den > 0
             /\ 3 * ret.num = sum * ret.den
             /\ (\A i \in 0..2 : arg.lapTimes[i] = 0) => ret = [num |-> 0, den |-> 1]

C7_Witness ==
    /\ op = "calculateAverageLap"
    /\ \E i \in 0..2 : arg.lapTimes[i] < 0
    /\ \E i \in 0..2 : arg.lapTimes[i] = 0
    /\ sessionCount >= 1
    /\ \A i \in 0..(sessionCount - 1) : sessions[i] # arg

\* C8: getBaseLapTime returns 95.0 for GT3, 70.0 for Formula and 120.0 for
\* every other value, Rally and the unrecognized values included.
C8_BaseLapTimeTotal ==
    op = "getBaseLapTime"
      => /\ ret.den = 1
         /\ (arg = 1 => ret.num = 95)
         /\ (arg = 2 => ret.num = 70)
         /\ (arg \notin {1, 2} => ret.num = 120)

C8_Witness ==
    op = "getBaseLapTime" /\ arg > 3 /\ ret.num = 120

\* C9: a query leaves the count, the stored sessions and the caller's
\* Session as they were, and a query repeated with the same argument
\* returns what it returned before.
C9_QueriesArePure ==
    [][op' \in Queries
         => /\ sessionCount' = sessionCount
            /\ sessions' = sessions
            /\ session' = session
            /\ (again' => ret' = ret)]_vars

C9_Witness ==
    /\ again /\ op = "calculateAverageLap"
    /\ sessionCount >= 1 /\ sessions[sessionCount - 1] = arg

\* C10: a session stored at position i stays there with the value it was
\* stored with, through later accepted and rejected addSession calls and
\* through the caller's changes of the Session it passed.
C10_StoredSessionsFrozen ==
    [][\A i \in Slots :
         i < sessionCount => i < sessionCount' /\ sessions'[i] = sessions[i]]_vars

C10_Witness ==
    /\ edits > 0 /\ addCalls > MAX_SESSIONS
    /\ sessionCount = MAX_SESSIONS
    /\ sessions[0] # session
    /\ sessions[MAX_SESSIONS - 1] = session
    /\ op = "addSession" /\ ret = FALSE


====
